---- MODULE Spec2Model ----
(***************************************************************************)
(* A model of slackard.py: the Slackard bot (connection set-up, channel   *)
(* resolution, message fetching, the dispatch loop of run(), the three     *)
(* registration decorators) and the retry loop of main().                  *)
(*                                                                         *)
(* Strings that the code inspects character by character (message texts,   *)
(* patterns, command names) are sequences of one-character strings.        *)
(* Dictionary keys that a message may lack are modelled by the value       *)
(* Absent, and a lookup of such a key is a KeyError.                       *)
(***************************************************************************)
EXTENDS Integers, Sequences, FiniteSets, TLC

\* ------------------------------------------------------------------ bounds
\* Largest timestamp the service hands out.
MaxTs == 3
\* Largest number of entries over the three registries.
MaxReg == 2

\* ----------------------------------------------------------- configuration
\* config.slackard['channel'], split at commas (lines 46-53).
ConfiguredChannels == {"general", "random"}
\* config.slackard['botname'] (line 44) and ['botnick'] (line 45).
botname == "Slackard"
botnick == <<"b">>

\* The channels the service knows, and the ID it lists for each name.
ServiceChannels == {"general", "random", "other"}
ServiceId(name) ==
    CASE name = "general" -> "C1"
      [] name = "random"  -> "C2"
      [] OTHER            -> "C3"

None == "None"
Absent == "<absent>"

\* ------------------------------------------------------------ generic help
Range(s) == {s[i] : i \in 1..Len(s)}

Reverse(s) == [i \in 1..Len(s) |-> s[Len(s) + 1 - i]]

Max(S) == CHOOSE x \in S : \A y \in S : y <= x

\* All orders in which a finite set can be enumerated.
Orders(S) ==
    {s \in [1..Cardinality(S) -> S] : \A i, j \in 1..Cardinality(S) : s[i] = s[j] => i = j}

\* ------------------------------------------------------------------- texts
\* re.IGNORECASE (lines 208 and 268): letters are compared without case.
Lower(c) ==
    CASE c = "B" -> "b"
      [] c = "P" -> "p"
      [] c = "Q" -> "q"
      [] c = "X" -> "x"
      [] OTHER   -> c

\* \s and \S of the command expression (line 207).
IsSpace(c) == c \in {" ", "\n"}

\* First index from i on at which text has no white space (Len + 1 if none).
SkipSpace(text, i) ==
    CHOOSE j \in i..(Len(text) + 1) :
        /\ \A k \in i..(j - 1) : IsSpace(text[k])
        /\ (j = Len(text) + 1 \/ ~IsSpace(text[j]))

\* First index from i on at which text has white space (Len + 1 if none).
SkipNonSpace(text, i) ==
    CHOOSE j \in i..(Len(text) + 1) :
        /\ \A k \in i..(j - 1) : ~IsSpace(text[k])
        /\ (j = Len(text) + 1 \/ IsSpace(text[j]))

\* First index from i on at which text has a line break (Len + 1 if none):
\* '.' matches every character but the line break.
SkipLine(text, i) ==
    CHOOSE j \in i..(Len(text) + 1) :
        /\ \A k \in i..(j - 1) : text[k] # "\n"
        /\ (j = Len(text) + 1 \/ text[j] = "\n")

\* The nick compared with its letter case (re.IGNORECASE forgotten).
NickPrefixCaseSensitive(nick, text) ==
    /\ Len(text) >= Len(nick) + 1
    /\ \A i \in 1..Len(nick) : text[i] = nick[i]
    /\ text[Len(nick) + 1] = ":"

\* Whether text starts with nick followed by a colon, case ignored.
NickPrefix(nick, text) ==
    /\ Len(text) >= Len(nick) + 1
    /\ \A i \in 1..Len(nick) : Lower(text[i]) = Lower(nick[i])
    /\ text[Len(nick) + 1] = ":"

NoMatch == [matched |-> FALSE, cmd |-> <<>>, args |-> <<>>]

\* cmd_matcher.match(text) with cmd_matcher = '^<botnick>:\s*(\S+)\s*(.*)',
\* re.IGNORECASE: the groups (cmd, args) of the match, or no match.
CmdMatch(text) ==
    IF ~NickPrefix(botnick, text) THEN NoMatch
    ELSE LET c1 == SkipSpace(text, Len(botnick) + 2)
             c2 == SkipNonSpace(text, c1)
             a1 == SkipSpace(text, c2)
             a2 == SkipLine(text, a1)
         IN IF c2 = c1 THEN NoMatch
            ELSE [matched |-> TRUE,
                  cmd     |-> SubSeq(text, c1, c2 - 1),
                  args    |-> SubSeq(text, a1, a2 - 1)]

\* Every pattern taken as one that compiles.
CompilesAlways(pattern) == TRUE

\* re.compile(pattern, re.IGNORECASE) of subscribe: the patterns of the model
\* are literal texts, and one with an unclosed parenthesis does not compile.
Compiles(pattern) == "(" \notin Range(pattern)

\* The pattern compared with its letter case (re.IGNORECASE forgotten).
SearchCaseSensitive(pattern, text) ==
    \E i \in 1..(Len(text) - Len(pattern) + 1) :
        \A k \in 1..Len(pattern) : text[i + k - 1] = pattern[k]

\* matcher.search(text) for a literal pattern compiled with re.IGNORECASE.
Search(pattern, text) ==
    \E i \in 1..(Len(text) - Len(pattern) + 1) :
        \A k \in 1..Len(pattern) : Lower(text[i + k - 1]) = Lower(pattern[k])

\* ---------------------------------------------------------------- messages
\* A message of the service: its timestamp and the fields the dispatch loop
\* reads; a field the message lacks is Absent.
Body(text, subtype, username) ==
    [text |-> text, subtype |-> subtype, username |-> username]

\* The text of a message that has no 'text' key.
NoText == <<Absent>>

\* The texts of the messages posted in the model.
TxtPlain    == <<"p">>
TxtCommand  == <<"b", ":", " ", "p", " ", "x">>
TxtUpper    == <<"B", ":", "p">>
TxtLines    == <<"b", ":", " ", "q", " ", " ", "x", "\n", "x">>
TxtMidNick  == <<"x", "b", ":", " ", "p">>
TxtNoCmd    == <<"b", ":", " ">>

Texts == {TxtPlain, TxtCommand, TxtUpper, TxtLines, TxtMidNick, TxtNoCmd}

\* Who a message says it is from: a user (no subtype), this bot, another bot,
\* a bot message with no username.
Senders ==
    { <<Absent, Absent>>, <<"bot_message", botname>>,
      <<"bot_message", "otherbot">>, <<"bot_message", Absent>>,
      <<"channel_join", Absent>> }

\* Every message body of the model.
AllBodies == {Body(t, s[1], s[2]) : t \in Texts \cup {NoText}, s \in Senders}

\* The bodies posted while the whole life cycle is explored: a message of a
\* user and a message of the bot itself.
Bodies ==
    { Body(TxtPlain, Absent, Absent),
      Body(TxtCommand, "bot_message", botname) }

\* The bodies of the second message of a batch when dispatch is explored.
FewBodies ==
    Bodies \cup { Body(TxtCommand, Absent, Absent), Body(NoText, Absent, Absent) }

Message(ts_, body) ==
    [ts |-> ts_, text |-> body.text, subtype |-> body.subtype,
     username |-> body.username]

\* Lines 127-128: the message with the ID and the name of its channel.
Tag(m, id, name) ==
    [ts |-> m.ts, text |-> m.text, subtype |-> m.subtype,
     username |-> m.username, chan_id |-> id, channel |-> name]

\* Lines 237-242: the test for a message of this bot; a missing subtype or
\* username is a KeyError, which the code passes over.
IsSelf(m) ==
    /\ m.subtype # Absent
    /\ m.subtype = "bot_message"
    /\ m.username # Absent
    /\ m.username = botname


\* ------------------------------------------------------------------- state
VARIABLES
    pc,            \* where main() and run() stand
    exc,           \* the exception main() is handling, or that ended it
    order,         \* the order in which the dict self.channels enumerates
    channels,      \* self.channels: name -> ID (None before the connection)
    chan_ids,      \* self.chan_ids: ID -> name (None: no such key)
    firehoses,     \* Slackard.firehoses
    subscribers,   \* Slackard.subscribers: (handler, pattern)
    commands,      \* Slackard.commands: (handler, command)
    hist,          \* the service: channel ID -> its messages, oldest first
    clock,         \* the service: the latest timestamp handed out
    ts,            \* run(): the watermark
    oldest,        \* _fetch_messages_since: its argument
    fetched,       \* _fetch_messages_since: the channels requested so far
    all_messages,  \* _fetch_messages_since: the messages gathered so far
    messages,      \* run(): the messages the last fetch returned
    calls,         \* the handler invocations of the last dispatch pass
    ret,           \* the outcome of the last call made by plugin code
    list_reply,    \* how the last channels.list() request ended
    raised_at,     \* the invocation of calls at which a handler raised, or 0
    seen           \* history: how often each firehose entry got each message

vars == <<pc, exc, order, channels, chan_ids, firehoses, subscribers, commands,
          hist, clock, ts, oldest, fetched, all_messages, messages, calls, ret,
          list_reply, raised_at, seen>>

Handlers == {"h1", "h2"}

ChannelIds == {ServiceId(n) : n \in ConfiguredChannels}

\* An argument of a call made by plugin code: None, a string, a collection
\* of strings, or a function.
Arg(kind, items) == [kind |-> kind, items |-> items]

NoRet == [op |-> None, arg |-> Arg("none", <<>>), raised |-> None, value |-> <<>>]

Registered == Len(firehoses) + Len(subscribers) + Len(commands)

\* What the history variable seen counts: a firehose entry, a channel and the
\* timestamp of a message of that channel.
SeenKeys == (1..MaxReg) \X ChannelIds \X (1..MaxTs)

\* Lines 41-54 and 37-39: the bot after Slackard(config_file).
Init ==
    /\ pc = "run"
    /\ exc = None
    /\ order \in Orders(ConfiguredChannels)
    /\ channels = [n \in ConfiguredChannels |-> None]
    /\ chan_ids = [i \in ChannelIds |-> None]
    /\ firehoses = <<>>
    /\ subscribers = <<>>
    /\ commands = <<>>
    /\ hist = [i \in ChannelIds |-> <<>>]
    /\ clock = 0
    /\ ts = 0
    /\ oldest = 0
    /\ fetched = 0
    /\ all_messages = <<>>
    /\ messages = <<>>
    /\ calls = <<>>
    /\ ret = NoRet
    /\ list_reply = None
    /\ raised_at = 0
    /\ seen = [k \in SeenKeys |-> 0]

\* ------------------------------------------------------------- the service
\* A message is posted to a channel. Timestamps grow within a channel; two
\* channels may hold messages of one timestamp. A post commutes with every
\* step that does not read the service, so posts are taken only before the
\* steps that read it.
Post(id, body) ==
    /\ pc \in {"watermark", "sleep", "fetch"}
    /\ \E t \in {clock, clock + 1} :
        /\ t >= 1
        /\ t <= MaxTs
        /\ \A i \in 1..Len(hist[id]) : hist[id][i].ts < t
        /\ hist' = [hist EXCEPT ![id] = Append(@, Message(t, body))]
        /\ clock' = t
    /\ UNCHANGED <<pc, exc, order, channels, chan_ids, firehoses, subscribers,
                   commands, ts, oldest, fetched, all_messages, messages,
                   calls, ret,
                   list_reply,
                   raised_at, seen>>

\* The request made without its oldest argument: the whole history.
HistoryAll(id, oldest_, inclusive) == Reverse(hist[id])

\* channels.history(channel, oldest=oldest): the messages of the channel
\* from oldest on, newest first; inclusive says whether the service counts a
\* message of timestamp oldest itself.
History(id, oldest_, inclusive) ==
    Reverse(SelectSeq(hist[id],
        LAMBDA m : m.ts > oldest_ \/ (inclusive /\ m.ts = oldest_)))

\* ---------------------------------------------------------- the connection
\* Lines 112-116: the maps filled from the channels the service lists, in
\* the order of self.channels; a configured channel that is not listed is a
\* KeyError, which leaves the maps as they are at that point.
RECURSIVE Populate(_, _, _, _)
Populate(ch, ids, k, listed) ==
    IF k > Len(order) THEN [raised |-> None, channels |-> ch, chan_ids |-> ids]
    ELSE IF order[k] \notin listed
         THEN [raised |-> "KeyError", channels |-> ch, chan_ids |-> ids]
         ELSE Populate([ch EXCEPT ![order[k]] = ServiceId(order[k])],
                       [ids EXCEPT ![ServiceId(order[k])] = order[k]],
                       k + 1, listed)

ListOutcomes == {"ok", "invalid_auth", "slack_error", "other_error"}

\* Lines 100-116, _init_connection: the exception it raises (None if none)
\* and the maps it leaves, for an outcome of channels.list().
InitConn(outcome, listed) ==
    CASE outcome = "invalid_auth" ->
            [raised |-> "SlackardFatalError", channels |-> channels,
             chan_ids |-> chan_ids]
      [] outcome = "slack_error" ->
            [raised |-> "slacker.Error", channels |-> channels,
             chan_ids |-> chan_ids]
      [] outcome = "other_error" ->
            [raised |-> "SlackardNonFatalError", channels |-> channels,
             chan_ids |-> chan_ids]
      [] OTHER ->
            Populate(channels, [i \in ChannelIds |-> None], 1, listed)

\* Lines 340-354: where main() goes with an exception e raised by bot.run().
MainCatch(e) == IF e = "SlackardNonFatalError" THEN "recover" ELSE "exit"

\* Line 204: run() opens the connection.
RunInitConnection ==
    /\ pc = "run"
    /\ \E outcome \in ListOutcomes, listed \in SUBSET ServiceChannels :
        LET r == InitConn(outcome, listed) IN
        /\ list_reply' = outcome
        /\ channels' = r.channels
        /\ chan_ids' = r.chan_ids
        /\ pc' = IF r.raised = None THEN "import" ELSE MainCatch(r.raised)
        /\ exc' = IF r.raised = None THEN exc ELSE r.raised
    /\ UNCHANGED <<order, firehoses, subscribers, commands, hist, clock, ts,
                   oldest, fetched, all_messages, messages, calls, ret,
                   raised_at, seen>>

\* Lines 346-351: after a SlackardNonFatalError main() waits and calls
\* bot._init_connection() inside the except block: an exception it raises is
\* caught by no clause and ends the process.
Reconnect ==
    /\ pc = "recover"
    /\ \E outcome \in ListOutcomes, listed \in SUBSET ServiceChannels :
        LET r == InitConn(outcome, listed) IN
        /\ list_reply' = outcome
        /\ channels' = r.channels
        /\ chan_ids' = r.chan_ids
        /\ pc' = IF r.raised = None THEN "run" ELSE "exit"
        /\ exc' = r.raised
    /\ UNCHANGED <<order, firehoses, subscribers, commands, hist, clock, ts,
                   oldest, fetched, all_messages, messages, calls, ret,
                   raised_at, seen>>


\* ------------------------------------------------------------ registration
\* Plugin code runs while pc = "import" (line 205, _import_plugins): it calls
\* the decorators below and the bot's operations. An exception of a plugin
\* is caught at line 81 and the import goes on.

\* Line 296 as insert(0, _f): the newest firehose handler is put first.
FirehosePrepend(h) ==
    /\ pc = "import"
    /\ Registered < MaxReg
    /\ firehoses' = <<h>> \o firehoses
    /\ ret' = [op |-> "firehose", arg |-> Arg("callable", <<>>), raised |-> None,
               value |-> <<>>]
    /\ UNCHANGED <<pc, exc, order, channels, chan_ids, subscribers, commands,
                   hist, clock, ts, oldest, fetched, all_messages, messages,
                   calls, list_reply, raised_at, seen>>

\* Lines 291-298, firehose.
Firehose(h) ==
    /\ pc = "import"
    /\ Registered < MaxReg
    /\ firehoses' = Append(firehoses, h)
    /\ ret' = [op |-> "firehose", arg |-> Arg("callable", <<>>), raised |-> None,
               value |-> <<>>]
    /\ UNCHANGED <<pc, exc, order, channels, chan_ids, subscribers, commands,
                   hist, clock, ts, oldest, fetched, all_messages, messages,
                   calls,
                   list_reply,
                   raised_at, seen>>

\* The patterns plugins subscribe with; the last one does not compile.
Patterns == {<<"p">>, <<"X">>, <<"(">>}

\* Lines 257-274, subscribe(pattern)(h): a callable given as pattern is a
\* TypeError; a pattern that does not compile is reported and not registered.
Subscribe(a, h) ==
    /\ pc = "import"
    /\ Registered < MaxReg
    /\ IF a.kind = "callable"
       THEN /\ ret' = [op |-> "subscribe", arg |-> a, raised |-> "TypeError",
                       value |-> <<>>]
            /\ UNCHANGED subscribers
       ELSE /\ ret' = [op |-> "subscribe", arg |-> a, raised |-> None,
                       value |-> <<>>]
            /\ subscribers' =
                 IF Compiles(a.items)
                 THEN Append(subscribers, [f |-> h, pattern |-> a.items])
                 ELSE subscribers
    /\ UNCHANGED <<pc, exc, order, channels, chan_ids, firehoses, commands,
                   hist, clock, ts, oldest, fetched, all_messages, messages,
                   calls,
                   list_reply,
                   raised_at, seen>>

\* The command names plugins register.
CommandNames == {<<"p">>, <<"q">>}

\* Lines 276-289, command(name)(h).
Command(a, h) ==
    /\ pc = "import"
    /\ Registered < MaxReg
    /\ IF a.kind = "callable"
       THEN /\ ret' = [op |-> "command", arg |-> a, raised |-> "TypeError",
                       value |-> <<>>]
            /\ UNCHANGED commands
       ELSE /\ ret' = [op |-> "command", arg |-> a, raised |-> None,
                       value |-> <<>>]
            /\ commands' = Append(commands, [f |-> h, command |-> a.items])
    /\ UNCHANGED <<pc, exc, order, channels, chan_ids, firehoses, subscribers,
                   hist, clock, ts, oldest, fetched, all_messages, messages,
                   calls,
                   list_reply,
                   raised_at, seen>>

\* Line 205 returns: every plugin is imported.
ImportPlugins ==
    /\ pc = "import"
    /\ pc' = "watermark"
    /\ ret' = NoRet
    /\ UNCHANGED <<exc, order, channels, chan_ids, firehoses, subscribers,
                   commands, hist, clock, ts, oldest, fetched, all_messages,
                   messages, calls,
                   list_reply,
                   raised_at, seen>>

\* ------------------------------------------------------ channel resolution
\* Lines 141-144: the members of the argument.
Members(a) == IF a.kind = "none" THEN order ELSE a.items

\* Lines 147-152 for one member: its ID, or None if it is unknown.
ResolveOne(c) ==
    IF c \in ChannelIds /\ chan_ids[c] # None THEN c
    ELSE IF c \in ConfiguredChannels THEN channels[c]
    ELSE "unknown"

\* Lines 145-152: the list result.
ResolveList(a) == [i \in 1..Len(Members(a)) |-> ResolveOne(Members(a)[i])]

\* Line 153 without set(): the list as it was gathered.
ResolveTuplesNoSet(result) == {result}

\* Line 153, tuple(set(result)): the tuples that may be returned.
ResolveTuples(result) == Orders(Range(result))

\* Lines 133-153, _resolve_channels, called by plugin code.
ResolveChannels(a) ==
    /\ pc = "import"
    /\ LET result == ResolveList(a) IN
       IF "unknown" \in Range(result)
       THEN ret' = [op |-> "_resolve_channels", arg |-> a,
                    raised |-> "AssertionError", value |-> <<>>]
       ELSE \E t \in ResolveTuples(result) :
               ret' = [op |-> "_resolve_channels", arg |-> a, raised |-> None,
                       value |-> t]
    /\ UNCHANGED <<pc, exc, order, channels, chan_ids, firehoses, subscribers,
                   commands, hist, clock, ts, oldest, fetched, all_messages,
                   messages, calls,
                   list_reply,
                   raised_at, seen>>

\* What plugins ask _resolve_channels for.
ChannelWords == {"general", "random", "C1", "C2", "nochan"}

Selectors ==
    {Arg("none", <<>>)}
    \cup {Arg("str", <<c>>) : c \in ChannelWords}
    \cup {Arg("list", <<c, d>>) : c \in ChannelWords, d \in ChannelWords}

\* The message plugins speak.
SpokenText == <<"x">>

\* The backquote character of the code fence of line 165.
Backquote == "bq"

\* Line 165, the message formatted between two runs of three backquotes.
Fence(message) ==
    <<Backquote, Backquote, Backquote>> \o message
        \o <<Backquote, Backquote, Backquote>>

\* Lines 163-165: the message after n turns of the loop with paste set. The
\* variable message is assigned again in every turn.
RECURSIVE Fenced(_, _)
Fenced(message, n) == IF n = 0 THEN message ELSE Fence(Fenced(message, n - 1))

\* Lines 163-170: the posts of speak to the channels of tuple t, in order.
SpeakPosts(t, message, paste) ==
    [i \in 1..Len(t) |->
        [channel |-> t[i],
         text    |-> IF paste THEN Fenced(message, i) ELSE message]]

\* Lines 155-170, speak(message, paste, channel=a), called by plugin code:
\* the channels are resolved first; post number failAt fails with the
\* exception of the client, which leaves speak (0: no post fails).
Speak(message, paste, a) ==
    /\ pc = "import"
    /\ LET result == ResolveList(a) IN
       IF "unknown" \in Range(result)
       THEN ret' = [op |-> "speak", arg |-> a, message |-> message,
                    paste |-> paste, raised |-> "AssertionError",
                    value |-> <<>>]
       ELSE \E t \in ResolveTuples(result), failAt \in 0..Len(result) :
               /\ failAt <= Len(t)
               /\ ret' = [op |-> "speak", arg |-> a, message |-> message,
                          paste |-> paste,
                          raised |-> IF failAt = 0 THEN None ELSE "slacker.Error",
                          value |-> IF failAt = 0
                                    THEN SpeakPosts(t, message, paste)
                                    ELSE SubSeq(SpeakPosts(t, message, paste),
                                                1, failAt - 1)]
    /\ UNCHANGED <<pc, exc, order, channels, chan_ids, firehoses, subscribers,
                   commands, hist, clock, ts, oldest, fetched, all_messages,
                   messages, calls, list_reply, raised_at, seen>>


\* --------------------------------------------------------------- the fetch
\* Lines 209-217: the first watermark, the greatest timestamp among the
\* latest messages of the configured channels. A failing history request is
\* a slacker.Error and a channel with no message an IndexError; run() catches
\* neither.
InitialWatermark ==
    /\ pc = "watermark"
    /\ \E ok \in BOOLEAN :
        LET raised == IF ~ok THEN "slacker.Error"
                      ELSE IF \E n \in ConfiguredChannels : hist[channels[n]] = <<>>
                           THEN "IndexError"
                           ELSE None
        IN IF raised = None
           THEN /\ ts' = Max({History(channels[n], 0, TRUE)[1].ts :
                              n \in ConfiguredChannels})
                /\ pc' = "sleep"
                /\ exc' = exc
           ELSE /\ ts' = ts
                /\ pc' = MainCatch(raised)
                /\ exc' = raised
    /\ UNCHANGED <<order, channels, chan_ids, firehoses, subscribers, commands,
                   hist, clock, oldest, fetched, all_messages, messages, calls,
                   ret,
                   list_reply,
                   raised_at, seen>>

\* Line 129 left out: the messages of a channel stay newest first.
FetchOneNoReverse(id, oldest_, inclusive) ==
    LET h == History(id, oldest_, inclusive)
    IN [i \in 1..Len(h) |-> Tag(h[i], id, chan_ids[id])]

\* Lines 122-129 for one channel: its new messages, tagged with the ID and
\* the name of the channel and put oldest first.
FetchOne(id, oldest_, inclusive) ==
    LET h == History(id, oldest_, inclusive)
    IN Reverse([i \in 1..Len(h) |-> Tag(h[i], id, chan_ids[id])])

\* Line 131 left out: every message gathered is returned.
ReturnedUnfiltered(all, oldest_) == all

\* Line 131: the messages returned.
Returned(all, oldest_) == SelectSeq(all, LAMBDA m : m.ts # oldest_)

\* Lines 228-231 left out: the exception of the request leaves run() as it is.
FetchErrorUnwrapped == "slacker.Error"

\* Lines 226-231: what run() raises when _fetch_messages_since raises.
FetchError == "SlackardNonFatalError"

\* Lines 219-231 and 118-131: one history request of _fetch_messages_since,
\* for the next channel in the order of self.channels.values(). The first
\* request of a pass follows the sleep of lines 220-224; the last one
\* returns the messages to run(). A failing request is caught at line 228
\* and raised again as a SlackardNonFatalError.
FetchChannel ==
    /\ pc \in {"sleep", "fetch"}
    /\ LET k   == IF pc = "sleep" THEN 1 ELSE fetched + 1
           old == IF pc = "sleep" THEN ts ELSE oldest
           acc == IF pc = "sleep" THEN <<>> ELSE all_messages
           id  == channels[order[k]]
       IN \E ok \in BOOLEAN, inclusive \in BOOLEAN :
           IF ok
           THEN LET all == acc \o FetchOne(id, old, inclusive) IN
                /\ exc' = exc
                /\ IF k = Len(order)
                   THEN /\ pc' = "dispatch"
                        /\ messages' = Returned(all, old)
                        /\ all_messages' = <<>>
                        /\ fetched' = 0
                        /\ oldest' = 0
                   ELSE /\ pc' = "fetch"
                        /\ messages' = <<>>
                        /\ all_messages' = all
                        /\ fetched' = k
                        /\ oldest' = old
           ELSE /\ pc' = MainCatch(FetchError)
                /\ exc' = FetchError
                /\ messages' = <<>>
                /\ all_messages' = <<>>
                /\ fetched' = 0
                /\ oldest' = 0
    /\ calls' = IF pc = "sleep" THEN <<>> ELSE calls
    /\ UNCHANGED <<order, channels, chan_ids, firehoses, subscribers, commands,
                   hist, clock, ts, ret,
                   list_reply,
                   raised_at, seen>>

\* ------------------------------------------------------------ the dispatch
\* The arguments of a handler called with the message alone.
NoArgs == <<Absent>>

\* One invocation: the registry and the index of the entry, its handler and
\* the arguments.
Call(kind, i, f, m, args) ==
    [kind |-> kind, idx |-> i, f |-> f, msg |-> m, args |-> args]

\* The firehose handlers called last registered first.
FirehoseCallsReversed(m) ==
    [i \in 1..Len(firehoses) |->
        Call("firehose", Len(firehoses) + 1 - i,
             firehoses[Len(firehoses) + 1 - i], m, NoArgs)]

\* Lines 245-246.
FirehoseCalls(m) ==
    [i \in 1..Len(firehoses) |-> Call("firehose", i, firehoses[i], m, NoArgs)]

\* Lines 247-249.
SubscriberCalls(m) ==
    SelectSeq([i \in 1..Len(subscribers) |->
                  Call("subscriber", i, subscribers[i].f, m, NoArgs)],
              LAMBDA c : Search(subscribers[c.idx].pattern, m.text))

\* Lines 250-255.
CommandCalls(m) ==
    LET r == CmdMatch(m.text) IN
    IF ~r.matched THEN <<>>
    ELSE SelectSeq([i \in 1..Len(commands) |->
                       Call("command", i, commands[i].f, m, r.args)],
                   LAMBDA c : commands[c.idx].command = r.cmd)

\* Lines 237-242 left out: the messages of the bot itself are dispatched.
MessageCallsNoSkip(m) ==
    IF m.text = NoText THEN <<>>
    ELSE FirehoseCalls(m) \o SubscriberCalls(m) \o CommandCalls(m)

\* Lines 235-255: the invocations for one message when no handler raises.
MessageCalls(m) ==
    IF m.text = NoText THEN <<>>
    ELSE IF IsSelf(m) THEN <<>>
    ELSE FirehoseCalls(m) \o SubscriberCalls(m) \o CommandCalls(m)

\* Lines 233-255: the invocations for a batch when no handler raises.
RECURSIVE BatchCalls(_)
BatchCalls(msgs) ==
    IF msgs = <<>> THEN <<>>
    ELSE MessageCalls(Head(msgs)) \o BatchCalls(Tail(msgs))

\* Lines 233-234: the watermark after the loop over a batch.
Watermark(ts_, msgs) == IF msgs = <<>> THEN ts_ ELSE msgs[Len(msgs)].ts

\* Each invocation in a try block of its own: the others are still made.
InvokedDespiteRaise(all, raiseAt) == all

\* The invocations made when invocation raiseAt of all raises: the loop
\* catches nothing, so none is made after it.
InvokedUntilRaise(all, raiseAt) == SubSeq(all, 1, raiseAt)

\* Lines 233-255: the loop over the messages of one fetch. A handler may
\* raise at any invocation (raiseAt is the invocation that raises, 0 if
\* none): the loop catches nothing, and the exception leaves run().
DispatchStep ==
    /\ pc = "dispatch"
    /\ LET all == BatchCalls(messages) IN
       \E raiseAt \in 0..Len(all) :
           /\ raised_at' = raiseAt
           /\ IF raiseAt = 0
              THEN /\ calls' = all
                   /\ ts' = Watermark(ts, messages)
                   /\ pc' = "sleep"
                   /\ exc' = exc
              ELSE /\ calls' = InvokedUntilRaise(all, raiseAt)
                   /\ ts' = all[raiseAt].msg.ts
                   /\ pc' = MainCatch("Exception")
                   /\ exc' = "Exception"
    /\ UNCHANGED <<order, channels, chan_ids, firehoses, subscribers, commands,
                   hist, clock, oldest, fetched, all_messages, messages, ret,
                   list_reply>>

Dispatch == DispatchStep /\ UNCHANGED seen

\* The dispatch with its firehose invocations counted in seen.
DispatchCounted ==
    /\ DispatchStep
    /\ seen' = [k \in SeenKeys |->
                  seen[k] + Cardinality({c \in 1..Len(calls') :
                      /\ calls'[c].kind = "firehose"
                      /\ calls'[c].idx = k[1]
                      /\ calls'[c].msg.chan_id = k[2]
                      /\ calls'[c].msg.ts = k[3]})]

\* ------------------------------------------------------ the specifications
\* The life cycle of the process: plugins that register a firehose handler,
\* the service posting messages and failing at any request.
Next ==
    \/ \E id \in ChannelIds, body \in Bodies : Post(id, body)
    \/ RunInitConnection
    \/ Reconnect
    \/ Firehose("h1")
    \/ ImportPlugins
    \/ InitialWatermark
    \/ FetchChannel
    \/ Dispatch

Spec == Init /\ [][Next]_vars

\* The import of the plugins: the connection, then plugin code that registers
\* handlers of the three kinds and resolves channels.
NextPlugins ==
    \/ RunInitConnection
    \/ \E h \in Handlers : Firehose(h)
    \/ \E p \in Patterns, h \in Handlers : Subscribe(Arg("str", p), h)
    \/ \E h \in Handlers : Subscribe(Arg("callable", <<>>), h)
    \/ \E c \in CommandNames, h \in Handlers : Command(Arg("str", c), h)
    \/ \E h \in Handlers : Command(Arg("callable", <<>>), h)
    \/ \E a \in Selectors : ResolveChannels(a)
    \/ ImportPlugins

SpecPlugins == Init /\ [][NextPlugins]_vars

\* The poll cycles of a running bot. The bot is connected, the plugins are
\* imported and the first watermark is taken; every channel holds one old
\* message, the first channel at most two new ones and the second at most one.
SeqsUpTo(S, n) == UNION {[1..k -> S] : k \in 0..n}

SubscriberEntries ==
    { [f |-> "h1", pattern |-> <<"p">>], [f |-> "h2", pattern |-> <<"p">>],
      [f |-> "h1", pattern |-> <<"X">>] }

CommandEntries ==
    { [f |-> "h1", command |-> <<"p">>], [f |-> "h2", command |-> <<"p">>],
      [f |-> "h1", command |-> <<"q">>] }

OldMessage == Message(1, Body(TxtPlain, Absent, Absent))

InitDispatch ==
    /\ pc = "sleep"
    /\ exc = None
    /\ order \in Orders(ConfiguredChannels)
    /\ channels =
         Populate([n \in ConfiguredChannels |-> None],
                  [i \in ChannelIds |-> None], 1, ServiceChannels).channels
    /\ chan_ids =
         Populate([n \in ConfiguredChannels |-> None],
                  [i \in ChannelIds |-> None], 1, ServiceChannels).chan_ids
    /\ firehoses \in SeqsUpTo(Handlers, MaxReg)
    /\ subscribers \in SeqsUpTo(SubscriberEntries, MaxReg - Len(firehoses))
    /\ commands \in
         SeqsUpTo(CommandEntries, MaxReg - Len(firehoses) - Len(subscribers))
    /\ \E new1 \in SeqsUpTo(AllBodies, 1) \cup [1..2 -> Bodies],
          new2 \in SeqsUpTo(FewBodies, 1) :
         hist = [i \in ChannelIds |->
                    IF i = "C1"
                    THEN <<OldMessage>> \o [k \in 1..Len(new1) |-> Message(k + 1, new1[k])]
                    ELSE <<OldMessage>> \o [k \in 1..Len(new2) |-> Message(3, new2[k])]]
    /\ clock = Max({hist[i][Len(hist[i])].ts : i \in ChannelIds})
    /\ ts = 1
    /\ oldest = 0
    /\ fetched = 0
    /\ all_messages = <<>>
    /\ messages = <<>>
    /\ calls = <<>>
    /\ ret = NoRet
    /\ list_reply = "ok"
    /\ raised_at = 0
    /\ seen = [k \in SeenKeys |-> 0]

NextDispatch ==
    \/ FetchChannel
    \/ Dispatch

SpecDispatch == InitDispatch /\ [][NextDispatch]_vars

\* ================================================================== claims
\* What the claims say of a message, a channel and an invocation, stated
\* without the operators of the model.
SelfAuthored(m) == m.subtype = "bot_message" /\ m.username = botname

NameOfId(id) == CHOOSE n \in ConfiguredChannels : ServiceId(n) = id

\* The number of invocations of entry j of a registry with message m.
Count(kind, j, m) ==
    Cardinality({k \in 1..Len(calls) :
        calls[k].kind = kind /\ calls[k].idx = j /\ calls[k].msg = m})

\* A poll cycle has ended: the fetch returned and no handler raised.
CycleDone == pc = "sleep" /\ messages # <<>>

\* C1: after a poll cycle whose fetch returned at least one message, the
\* watermark is the greatest timestamp among the messages returned.
C1_WatermarkIsMaximum ==
    CycleDone => ts = Max({messages[i].ts : i \in 1..Len(messages)})

\* C2: when _fetch_messages_since(T) returns (T is the watermark ts), no
\* message returned has timestamp T, every message of a configured channel
\* with a timestamp above T is returned exactly once, and every message
\* returned is a message of the channel whose ID and name it carries.
C2_FetchExclusiveComplete ==
    pc = "dispatch" =>
        /\ \A i \in 1..Len(messages) : messages[i].ts # ts
        /\ \A id \in ChannelIds : \A j \in 1..Len(hist[id]) :
              hist[id][j].ts > ts =>
                 Cardinality({i \in 1..Len(messages) :
                     /\ messages[i].chan_id = id
                     /\ messages[i].channel = NameOfId(id)
                     /\ messages[i].ts = hist[id][j].ts
                     /\ messages[i].text = hist[id][j].text
                     /\ messages[i].subtype = hist[id][j].subtype
                     /\ messages[i].username = hist[id][j].username}) = 1
        /\ \A i \in 1..Len(messages) :
              /\ messages[i].chan_id \in ChannelIds
              /\ messages[i].channel = NameOfId(messages[i].chan_id)
              /\ \E j \in 1..Len(hist[messages[i].chan_id]) :
                    hist[messages[i].chan_id][j].ts = messages[i].ts

\* C2's case: a fetch returned two messages of one channel and one of the
\* other while each channel also holds a message of timestamp T.
C2_Witness ==
    /\ pc = "dispatch"
    /\ Len(messages) = 3
    /\ \E i, j \in 1..3 : messages[i].chan_id # messages[j].chan_id
    /\ \A id \in ChannelIds : \E j \in 1..Len(hist[id]) : hist[id][j].ts = ts

\* C3: no handler of any kind is invoked with a message whose subtype is
\* bot_message and whose username is the bot's name.
C3_NoSelfDelivery ==
    \A k \in 1..Len(calls) : ~SelfAuthored(calls[k].msg)

\* C3's case: a batch with a message of the bot whose text is a command and
\* matches a pattern was dispatched to registered handlers.
C3_Witness ==
    /\ CycleDone
    /\ \E i \in 1..Len(messages) :
          SelfAuthored(messages[i]) /\ messages[i].text = TxtCommand
    /\ firehoses # <<>>
    /\ \E j \in 1..Len(commands) : commands[j].command = <<"p">>
    /\ calls # <<>>

\* C4: after a poll cycle, every registered firehose handler was invoked
\* with every fetched message that is not self-authored, also one that has
\* no text.
C4_FirehoseGetsEveryMessage ==
    CycleDone =>
        \A i \in 1..Len(messages), j \in 1..Len(firehoses) :
            ~SelfAuthored(messages[i]) => Count("firehose", j, messages[i]) >= 1

\* The texts in which each pattern of the model is found by re.search with
\* re.IGNORECASE.
ExpectedHits(pattern) ==
    CASE pattern = <<"p">> -> {TxtPlain, TxtCommand, TxtUpper, TxtMidNick}
      [] pattern = <<"X">> -> {TxtCommand, TxtLines, TxtMidNick}
      [] OTHER -> {}

\* C5: after a poll cycle in which no handler raised, every subscription
\* was invoked exactly once with each fetched non-self message in whose
\* text its pattern matches, with the message as its only argument, and
\* was not invoked with a message in whose text the pattern does not match.
C5_SubscriberOncePerMatch ==
    CycleDone =>
        \A i \in 1..Len(messages), j \in 1..Len(subscribers) :
            ~SelfAuthored(messages[i]) =>
                IF messages[i].text \in ExpectedHits(subscribers[j].pattern)
                THEN /\ Count("subscriber", j, messages[i]) = 1
                     /\ \E k \in 1..Len(calls) :
                           calls[k] = [kind |-> "subscriber", idx |-> j,
                                       f |-> subscribers[j].f,
                                       msg |-> messages[i], args |-> NoArgs]
                ELSE Count("subscriber", j, messages[i]) = 0

\* C5's case: a subscription whose pattern is in upper case was invoked
\* with a message that has the letter in lower case, and another fetched
\* message does not match.
C5_Witness ==
    /\ CycleDone
    /\ \E i \in 1..Len(messages), j \in 1..Len(subscribers) :
          /\ subscribers[j].pattern = <<"X">>
          /\ messages[i].text = TxtCommand
          /\ ~SelfAuthored(messages[i])
          /\ Count("subscriber", j, messages[i]) = 1
          /\ \E n \in 1..Len(messages) :
                messages[n].text = TxtPlain /\ Count("subscriber", j, messages[n]) = 0

StartsWith(text, prefix) ==
    Len(text) >= Len(prefix) /\ SubSeq(text, 1, Len(prefix)) = prefix

\* The invocations of command entry j with message m and arguments args.
CountArgs(j, m, args) ==
    Cardinality({k \in 1..Len(calls) :
        calls[k] = [kind |-> "command", idx |-> j, f |-> commands[j].f,
                    msg |-> m, args |-> args]})

\* C6 as stated: for a non-self message whose text is
\* '<botnick>: <command> <rest>', every handler registered for <command> is
\* invoked exactly once with (<rest>, message) and no handler of another
\* name is invoked; a message whose text does not start with '<botnick>:'
\* invokes no command handler.
C6_CommandAsStated ==
    CycleDone =>
        \A i \in 1..Len(messages) :
            LET m == messages[i] IN
            (~SelfAuthored(m) /\ m.text # NoText) =>
                /\ \A cmd \in {<<"p">>, <<"q">>},
                      rest \in {<<"x">>, <<" ", "x", "\n", "x">>} :
                      m.text = botnick \o <<":", " ">> \o cmd \o <<" ">> \o rest =>
                          \A j \in 1..Len(commands) :
                              IF commands[j].command = cmd
                              THEN CountArgs(j, m, rest) = 1 /\ Count("command", j, m) = 1
                              ELSE Count("command", j, m) = 0
                /\ ~StartsWith(m.text, botnick \o <<":">>) =>
                      \A j \in 1..Len(commands) : Count("command", j, m) = 0

\* The command and the arguments that '^b:\s*(\S+)\s*(.*)' with
\* re.IGNORECASE finds in each text of the model.
ExpectedCommand(text) ==
    CASE text = TxtCommand -> [matched |-> TRUE, cmd |-> <<"p">>, args |-> <<"x">>]
      [] text = TxtUpper   -> [matched |-> TRUE, cmd |-> <<"p">>, args |-> <<>>]
      [] text = TxtLines   -> [matched |-> TRUE, cmd |-> <<"q">>, args |-> <<"x">>]
      [] OTHER             -> [matched |-> FALSE, cmd |-> <<>>, args |-> <<>>]

\* C6 as amended: the nick is compared without letter case, white space
\* after the colon and around the command is optional, and the arguments
\* are the rest of the line after the white space that follows the command;
\* a handler registered for that command is invoked exactly once with (the
\* arguments, message), and no other command handler is invoked; a text with
\* no such start, or with no command after it, invokes no command handler.
C6_CommandAsParsed ==
    CycleDone =>
        \A i \in 1..Len(messages), j \in 1..Len(commands) :
            LET m == messages[i]
                e == ExpectedCommand(m.text)
            IN ~SelfAuthored(m) =>
                  IF e.matched /\ commands[j].command = e.cmd
                  THEN CountArgs(j, m, e.args) = 1 /\ Count("command", j, m) = 1
                  ELSE Count("command", j, m) = 0

\* C6's case: a message with the nick in upper case and no white space
\* invoked the handler of its command, and the handler of another command
\* was not invoked.
C6_Witness ==
    /\ CycleDone
    /\ Len(commands) = 2
    /\ commands[1].command = <<"q">>
    /\ commands[2].command = <<"p">>
    /\ \E i \in 1..Len(messages) :
          /\ messages[i].text = TxtUpper
          /\ ~SelfAuthored(messages[i])
          /\ CountArgs(2, messages[i], <<>>) = 1
          /\ Count("command", 1, messages[i]) = 0

Position(m) == CHOOSE i \in 1..Len(messages) : messages[i] = m

Rank(kind) ==
    CASE kind = "firehose" -> 1 [] kind = "subscriber" -> 2 [] OTHER -> 3

\* C7: in the invocations of a poll cycle the messages come in fetch order,
\* for one message the firehose handlers come before the subscribers and
\* these before the command handlers, and within a kind the handlers come in
\* the order of their registration.
C7_DispatchOrder ==
    \A k, l \in 1..Len(calls) :
        k < l =>
            /\ Position(calls[k].msg) <= Position(calls[l].msg)
            /\ calls[k].msg = calls[l].msg =>
                  /\ Rank(calls[k].kind) <= Rank(calls[l].kind)
                  /\ calls[k].kind = calls[l].kind => calls[k].idx < calls[l].idx

\* C7's case: two messages were dispatched, each to handlers of two kinds.
C7_Witness ==
    /\ CycleDone
    /\ Len(messages) = 2
    /\ \E k, l \in 1..Len(calls) :
          /\ calls[k].msg = messages[1] /\ calls[l].msg = messages[1]
          /\ calls[k].kind = "firehose" /\ calls[l].kind # "firehose"
    /\ \E k, l \in 1..Len(calls) :
          /\ calls[k].msg = messages[2] /\ calls[l].msg = messages[2]
          /\ calls[k].kind = "firehose" /\ calls[l].kind # "firehose"

\* The channel a word names, by name or by ID.
KnownWords == {"general", "random", "C1", "C2"}

IdOfWord(c) == IF c \in {"general", "C1"} THEN "C1" ELSE "C2"

\* C8: _resolve_channels(None) returns the IDs of all configured channels;
\* for a known name or ID it returns that channel's ID; for a collection it
\* returns the IDs of its members, none twice; with a member that is neither
\* a known name nor a known ID it fails with the unknown-channel error; and
\* the two maps stay as the connection left them.
C8_ResolveChannels ==
    ret.op = "_resolve_channels" =>
        LET words == IF ret.arg.kind = "none" THEN {"general", "random"}
                     ELSE Range(ret.arg.items)
        IN /\ IF words \subseteq KnownWords
              THEN /\ ret.raised = None
                   /\ Range(ret.value) = {IdOfWord(c) : c \in words}
                   /\ Len(ret.value) = Cardinality(Range(ret.value))
              ELSE ret.raised = "AssertionError"
           /\ channels = [n \in ConfiguredChannels |-> IdOfWord(n)]
           /\ chan_ids = [i \in ChannelIds |-> NameOfId(i)]

\* C8's case: a collection naming one channel by name and by ID resolved to
\* one ID.
C8_Witness ==
    /\ ret.op = "_resolve_channels"
    /\ ret.arg = Arg("list", <<"general", "C1">>)
    /\ ret.value = <<"C1">>

\* C9: _init_connection raises SlackardFatalError exactly when the service
\* answers invalid_auth, and SlackardNonFatalError for every other failure
\* of the channel-list request.
C9_ConnectErrorsClassified ==
    /\ list_reply = "invalid_auth" <=> exc = "SlackardFatalError"
    /\ list_reply \in {"slack_error", "other_error"} =>
          exc = "SlackardNonFatalError"

\* C10: the process never ends because of a recoverable error.
C10_NoExitOnRecoverable ==
    pc = "exit" => exc # "SlackardNonFatalError"

\* C11: when the history request of a channel fails during a fetch pass, the
\* pass ends with SlackardNonFatalError raised from run(), no handler has been
\* invoked for a message of the channels fetched earlier in the pass, and the
\* watermark is the one the pass started with.
C11_FetchFailureAbandonsPass ==
    [][(pc \in {"sleep", "fetch"} /\ pc' \notin {"sleep", "fetch", "dispatch"})
         => /\ pc' = "recover"
            /\ exc' = "SlackardNonFatalError"
            /\ calls' = <<>>
            /\ ts' = ts
            /\ pc = "fetch" => ts' = oldest]_vars

\* A pass was abandoned while a channel held a message newer than the
\* watermark and a firehose handler was registered to receive it.
C11_Witness ==
    /\ pc = "recover"
    /\ list_reply = "ok"
    /\ exc = "SlackardNonFatalError"
    /\ firehoses # <<>>
    /\ \E m \in Range(hist[ServiceId(order[1])]) : m.ts > ts /\ ~SelfAuthored(m)

\* The life cycle with plugins that register handlers of the three kinds:
\* connection, imports (again after each restart of run()), poll cycles,
\* failures and reconnects. One user posts one kind of message.
NextRegistry ==
    \/ \E id \in ChannelIds : Post(id, Body(TxtPlain, Absent, Absent))
    \/ RunInitConnection
    \/ Reconnect
    \/ \E h \in Handlers : Firehose(h)
    \/ Subscribe(Arg("str", <<"p">>), "h1")
    \/ Command(Arg("str", <<"p">>), "h1")
    \/ ImportPlugins
    \/ InitialWatermark
    \/ FetchChannel
    \/ Dispatch

SpecRegistry == Init /\ [][NextRegistry]_vars

IsPrefix(s, t) == Len(s) <= Len(t) /\ SubSeq(t, 1, Len(s)) = s

\* How often handler h is in the firehose registry.
Registrations(h) ==
    Cardinality({j \in 1..Len(firehoses) : firehoses[j] = h})

\* How often handler h was invoked as a firehose handler with message m.
Invocations(h, m) ==
    Cardinality({k \in 1..Len(calls) :
        calls[k].kind = "firehose" /\ calls[k].f = h /\ calls[k].msg = m})

\* Every non-self message of the batch that has a text went to handler h as
\* often as h is registered.
InvokedAsRegistered ==
    \A i \in 1..Len(messages), h \in Handlers :
        (~SelfAuthored(messages[i]) /\ messages[i].text # NoText)
            => Invocations(h, messages[i]) = Registrations(h)

\* C12: the three registries only grow at the end: over every step, whatever
\* it is (registration, fetch, dispatch, failure, reconnect, restart), each
\* registry before the step is a prefix of the registry after it; and after a
\* completed poll cycle a firehose handler registered k times has been
\* invoked k times with each dispatched message.
C12_RegistriesAppendOnly ==
    [][/\ IsPrefix(firehoses, firehoses')
       /\ IsPrefix(subscribers, subscribers')
       /\ IsPrefix(commands, commands')
       /\ CycleDone' => InvokedAsRegistered']_vars

\* A poll cycle ended with the same handler registered twice as a firehose
\* handler and a message dispatched.
C12_Witness ==
    /\ CycleDone
    /\ Len(firehoses) >= 2
    /\ firehoses[1] = firehoses[2]
    /\ \E i \in 1..Len(messages) : ~SelfAuthored(messages[i])

\* C13: when a handler raises while message m is dispatched, the raising
\* invocation is the last one made (no later handler for m, no handler for the
\* messages that follow m in the batch), and the exception leaves run() as it
\* is, which ends the process.
C13_RaiseStopsDispatch ==
    raised_at # 0 =>
        /\ pc = "exit"
        /\ exc = "Exception"
        /\ Len(calls) = raised_at
        /\ \A i \in 1..Len(messages) :
              i > Position(calls[raised_at].msg)
                  => \A k \in 1..Len(calls) : calls[k].msg # messages[i]

\* The first of two firehose handlers raised on the first of several messages
\* that all would have been dispatched.
C13_Witness ==
    /\ raised_at = 1
    /\ Len(firehoses) >= 2
    /\ Len(messages) >= 2
    /\ calls[1].msg = messages[1]
    /\ \A i \in 1..Len(messages) :
          ~SelfAuthored(messages[i]) /\ messages[i].text # NoText

RegistriesUnchanged ==
    /\ firehoses' = firehoses
    /\ subscribers' = subscribers
    /\ commands' = commands

\* C14: over every registration step of the import, told by the call it
\* leaves in ret: subscribe and command given a callable raise TypeError and
\* change no registry; subscribe with the pattern that does not compile
\* raises nothing and changes no registry; subscribe, command and firehose
\* with a valid argument raise nothing, append exactly one entry (the handler
\* with that argument) to their own registry and change no other registry.
C14_Registration ==
    [][(pc = "import" /\ pc' = "import") =>
         LET r == ret' IN
         /\ (r.op \in {"subscribe", "command"} /\ r.arg.kind = "callable")
               => r.raised = "TypeError" /\ RegistriesUnchanged
         /\ (r.op = "subscribe" /\ r.arg.kind = "str" /\ r.arg.items = <<"(">>)
               => r.raised = None /\ RegistriesUnchanged
         /\ (r.op = "subscribe" /\ r.arg.kind = "str" /\ r.arg.items # <<"(">>)
               => /\ r.raised = None
                  /\ \E h \in Handlers :
                        subscribers' = Append(subscribers,
                                              [f |-> h, pattern |-> r.arg.items])
                  /\ firehoses' = firehoses
                  /\ commands' = commands
         /\ (r.op = "command" /\ r.arg.kind = "str")
               => /\ r.raised = None
                  /\ \E h \in Handlers :
                        commands' = Append(commands,
                                           [f |-> h, command |-> r.arg.items])
                  /\ firehoses' = firehoses
                  /\ subscribers' = subscribers
         /\ r.op = "firehose"
               => /\ r.raised = None
                  /\ \E h \in Handlers : firehoses' = Append(firehoses, h)
                  /\ subscribers' = subscribers
                  /\ commands' = commands]_vars

\* subscribe was given a handler as its pattern while the subscriber registry
\* already had an entry.
C14_Witness ==
    /\ pc = "import"
    /\ ret.op = "subscribe"
    /\ ret.arg.kind = "callable"
    /\ ret.raised = "TypeError"
    /\ subscribers # <<>>

\* C15: once an _init_connection has succeeded (every configured name has an
\* ID), in every later state, also after reconnects that succeeded or failed,
\* channels and chan_ids are inverse to each other over the configured
\* channels: chan_ids[channels[n]] = n for every configured name n, and every
\* ID i of chan_ids belongs to a configured name with channels[chan_ids[i]] = i.
C15_MapsInverse ==
    (\A n \in ConfiguredChannels : channels[n] # None) =>
        /\ \A n \in ConfiguredChannels : chan_ids[channels[n]] = n
        /\ \A i \in DOMAIN chan_ids :
              chan_ids[i] # None =>
                  /\ chan_ids[i] \in ConfiguredChannels
                  /\ channels[chan_ids[i]] = i

\* The place of the channel with this ID in the enumeration of self.channels.
ChanPos(id) == CHOOSE k \in 1..Len(order) : channels[order[k]] = id

\* C16: in the list _fetch_messages_since returns, the messages of a channel
\* are contiguous, the channels come in enumeration order, and within one
\* channel the timestamps strictly increase.
C16_FetchOrder ==
    pc = "dispatch" =>
        \A i, j \in 1..Len(messages) :
            i < j =>
                /\ ChanPos(messages[i].chan_id) <= ChanPos(messages[j].chan_id)
                /\ messages[i].chan_id = messages[j].chan_id
                      => messages[i].ts < messages[j].ts

\* A fetch returned two messages of the first channel and one of the second.
C16_Witness ==
    /\ pc = "dispatch"
    /\ Len(messages) = 3
    /\ messages[1].chan_id = messages[2].chan_id
    /\ messages[2].chan_id # messages[3].chan_id

\* C17: the watermark never decreases over a step: not over a poll cycle,
\* not over a handler exception, and not when run() is restarted after a
\* recoverable error and takes its first watermark again (messages are never
\* deleted and the timestamps of a channel only grow).
C17_WatermarkMonotone == [][ts' >= ts]_vars

\* run() was restarted: it is about to take its first watermark again while
\* it holds the watermark of the run before, and a newer message exists.
C17_Witness ==
    /\ pc = "watermark"
    /\ ts >= 1
    /\ \E n \in ConfiguredChannels :
          \E m \in Range(hist[channels[n]]) : m.ts > ts

\* One run() of a connected bot from its first watermark on, until a history
\* request fails or a handler raises, with the firehose invocations counted
\* over all its poll cycles: every channel holds one old message, at least
\* one firehose handler is registered, and messages are posted at any time,
\* also between the history requests of a pass.
InitRun ==
    /\ pc = "sleep"
    /\ exc = None
    /\ order \in Orders(ConfiguredChannels)
    /\ channels =
         Populate([n \in ConfiguredChannels |-> None],
                  [i \in ChannelIds |-> None], 1, ServiceChannels).channels
    /\ chan_ids =
         Populate([n \in ConfiguredChannels |-> None],
                  [i \in ChannelIds |-> None], 1, ServiceChannels).chan_ids
    /\ firehoses \in SeqsUpTo({"h1"}, MaxReg) \ {<<>>}
    /\ subscribers = <<>>
    /\ commands = <<>>
    /\ hist = [i \in ChannelIds |-> <<OldMessage>>]
    /\ clock = OldMessage.ts
    /\ ts = OldMessage.ts
    /\ oldest = 0
    /\ fetched = 0
    /\ all_messages = <<>>
    /\ messages = <<>>
    /\ calls = <<>>
    /\ ret = NoRet
    /\ list_reply = "ok"
    /\ raised_at = 0
    /\ seen = [k \in SeenKeys |-> 0]

NextRun ==
    \/ \E id \in ChannelIds, body \in Bodies : Post(id, body)
    \/ FetchChannel
    \/ DispatchCounted

SpecRun == InitRun /\ [][NextRun]_vars

\* Every non-self message with a text, of a configured channel, that is newer
\* than the first watermark and not newer than the current one, has gone to
\* every firehose handler at least once.
NothingLost ==
    \A id \in ChannelIds :
        \A m \in Range(hist[id]) :
            (/\ ~SelfAuthored(m)
             /\ m.text # NoText
             /\ m.ts > OldMessage.ts
             /\ m.ts <= ts)
                => \A j \in 1..Len(firehoses) : seen[<<j, id, m.ts>>] >= 1

\* C18: at the end of every poll cycle of a run without failure, whatever was
\* posted between the history requests of its passes, no message is lost
\* behind the watermark.
C18_NothingLostBehindWatermark ==
    [][(pc = "dispatch" /\ pc' = "sleep") => NothingLost']_vars

\* C19: in a run without failure and without handler exception, no firehose
\* entry is invoked more than once with the same message over all poll cycles.
C19_AtMostOnce ==
    pc \in {"sleep", "fetch", "dispatch"} => \A k \in SeenKeys : seen[k] <= 1

\* The import of plugins that speak: the connection, then plugin code that
\* calls speak with and without paste, for every selector.
NextSpeak ==
    \/ RunInitConnection
    \/ \E a \in Selectors, paste \in BOOLEAN : Speak(SpokenText, paste, a)
    \/ ImportPlugins

SpecSpeak == Init /\ [][NextSpeak]_vars

\* C20: a speak that succeeds has posted exactly one message to each resolved
\* channel, each with the same text: the message as given with paste=False,
\* the message inside one code fence with paste=True; a speak whose selector
\* has an unknown channel fails with nothing posted.
C20_SpeakSameTextOnce ==
    ret.op = "speak" =>
        LET words == IF ret.arg.kind = "none" THEN {"general", "random"}
                     ELSE Range(ret.arg.items)
            text  == IF ret.paste
                     THEN <<"bq", "bq", "bq">> \o ret.message
                              \o <<"bq", "bq", "bq">>
                     ELSE ret.message
        IN IF words \subseteq KnownWords
           THEN ret.raised = None =>
                    /\ {ret.value[i].channel : i \in 1..Len(ret.value)}
                          = {IdOfWord(c) : c \in words}
                    /\ Len(ret.value) = Cardinality({IdOfWord(c) : c \in words})
                    /\ \A i \in 1..Len(ret.value) : ret.value[i].text = text
           ELSE ret.raised = "AssertionError" /\ ret.value = <<>>

====
